---- MODULE Spec2Model ----
(***************************************************************************)
(* A model of src/blogs.py: the paginated listing crawl                    *)
(* (get_all_blog_links), the per-article extraction (scrape_blog), the     *)
(* image cache (download_image) and the orchestrator (main).               *)
(*                                                                         *)
(* Python values are modelled as follows.  An optional value is a sequence *)
(* of length 0 (None / element not found / attribute missing) or 1.  A URL *)
(* string is the record of its host, path and query; a URL string with an  *)
(* empty host is a relative reference.  The network and the site are the   *)
(* environment: the listing is fixed by Init, an article's response is     *)
(* chosen when it is requested, and a request may fail.                    *)
(***************************************************************************)
EXTENDS Naturals, Sequences, FiniteSets

VARIABLES
    mode,            \* which entry point runs: "links", "scrape" or "main"
    pc,              \* position of the single thread of control
    exc,             \* the exception that ended the run, or "none"
    site,            \* the listing: site[k] is the sequence of cards of page k
    page,            \* get_all_blog_links: page
    all_links,       \* get_all_blog_links: all_links
    cards,           \* get_all_blog_links: cards of the page being processed
    ci,              \* get_all_blog_links: position of the for loop in cards
    log,             \* history: listing requests and pacing delays, in order
    blog_url,        \* scrape_blog: blog_url
    card_image_url,  \* scrape_blog: card_image_url
    status,          \* scrape_blog: HTTP status of res
    soup,            \* scrape_blog: the parsed article page
    rec,             \* scrape_blog: the fields computed so far
    todo,            \* scrape_blog: the download_image calls still to make
    ret,             \* scrape_blog: the returned value (None or a record)
    requests,        \* history: article and image requests, in order
    files,           \* the image folder: the file paths written
    blog_links,      \* main: blog_links
    bi,              \* main: position of the for loop in blog_links
    all_blog_data,   \* main: all_blog_data
    output           \* the output file: None until written, then its content

vars == <<mode, pc, exc, site, page, all_links, cards, ci, log, blog_url,
          card_image_url, status, soup, rec, todo, ret, requests, files,
          blog_links, bi, all_blog_data, output>>

linkVars == <<page, all_links, cards, ci, log>>
scrapeVars == <<blog_url, card_image_url, status, soup, rec, todo, ret,
                requests, files>>
mainVars == <<blog_links, bi, all_blog_data, output>>

(***************************************************************************)
(* Bounds of the model.                                                    *)
(***************************************************************************)
\* the cards of the whole listing, in the specification of get_all_blog_links
MaxCards == 3
\* the images of an article's content container
MaxImgs == 2
\* the cards of the whole listing, in the specification of main
MaxArticles == 3

(***************************************************************************)
(* Optional values and URLs.                                               *)
(***************************************************************************)
None == <<>>
Some(x) == <<x>>

Url(h, p, q) == [host |-> h, path |-> p, query |-> q]

\* BASE_URL = "https://www.taplowgroup.com"
BASE_URL == Url("www.taplowgroup.com", "", "")
IMAGE_FOLDER == "images"
OUTPUT_FILE == "taplow_blogs_full.json"

\* str.startswith("http"): the reference carries a scheme and a host
StartsWithHttp(u) == u.host # ""

\* urljoin(base, u) for an absolute u, an empty u and a rooted path u
urljoin(base, u) ==
    IF u.host # "" THEN u
    ELSE IF u.path = "" /\ u.query = "" THEN base
    ELSE Url(base.host, u.path, u.query)

\* a falsy optional string: None or the empty string
Falsy(o) == o = None \/ o[1] = Url("", "", "")

\* os.path.splitext(urlparse(img_url).path)[-1]
splitext(p) ==
    CASE p = "/img/x.png" -> ".png"
      [] p = "/files/photo.jpeg" -> ".jpeg"
      [] OTHER -> ""

\* hashlib.md5(img_url.encode()).hexdigest(): a digest of the whole URL
\* string, distinct for the distinct URLs of the model
md5(u) == <<"md5", u.host, u.path, u.query>>

(***************************************************************************)
(* The inputs: image references, cards, listings.                          *)
(***************************************************************************)
SrcRel == Url("", "/img/x.png", "")
SrcAbs == Url("www.taplowgroup.com", "/img/x.png", "")
SrcCdn == Url("cdn.example.org", "/image", "v=2")

HrefA == Url("", "/insights/a", "")
HrefB == Url("", "/insights/b", "")

\* a card: its ".article_image a[href]" anchor (optional) and the anchor's
\* first img (optional), whose src attribute is itself optional
Card(a, i) == [anchor |-> a, img |-> i]

LinkCards ==
    { Card(None, None),
      Card(Some(HrefA), None),
      Card(Some(HrefA), Some(None)),
      Card(Some(HrefA), Some(Some(SrcRel))),
      Card(Some(HrefB), Some(Some(SrcRel))),
      Card(Some(HrefB), Some(Some(SrcCdn))) }

MainCards ==
    { Card(Some(HrefA), None),
      Card(Some(HrefB), Some(Some(SrcCdn))) }

SeqsOf(S, lo, hi) == UNION { [1..k -> S] : k \in lo..hi }

\* the listings of at most b cards: non-empty pages, followed by empty ones
RECURSIVE Listings(_, _)
Listings(C, b) ==
    IF b = 0 THEN { <<>> }
    ELSE { <<>> } \cup
         UNION { { <<p>> \o r : r \in Listings(C, b - Len(p)) } :
                 p \in SeqsOf(C, 1, b) }

\* the cards the server returns for page k
PageAt(k) == IF k <= Len(site) THEN site[k] ELSE <<>>

(***************************************************************************)
(* get_all_blog_links                                                      *)
(***************************************************************************)
Get(k, r) == [op |-> "get", page |-> k, res |-> r]
Sleep == [op |-> "sleep", page |-> 0, res |-> ""]

\* the body of the for loop for one card (lines 69-78): the LinkEntries it
\* appends, or the KeyError of img_tag["src"]
CardStep(card) ==
    LET a_tag == card.anchor
        img_tag == IF a_tag # None THEN card.img ELSE None
    IN  IF a_tag = None
        THEN [raised |-> FALSE, out |-> <<>>]
        ELSE IF img_tag # None /\ img_tag[1] = None
        THEN [raised |-> TRUE, out |-> <<>>]
        ELSE [raised |-> FALSE,
              out |-> << [url |-> urljoin(BASE_URL, a_tag[1]),
                          card_image_url |->
                              IF img_tag # None THEN img_tag[1] ELSE None] >>]

\* a variant of ListingNetworkError that returns an empty list
ListingNetworkErrorLosesLinks ==
    /\ pc = "links_fetch"
    /\ log' = Append(log, Get(page, "error"))
    /\ all_links' = <<>>
    /\ pc' = "links_ret"
    /\ UNCHANGED <<mode, exc, site, page, cards, ci>>
    /\ UNCHANGED scrapeVars
    /\ UNCHANGED mainVars

\* requests.get raises: break, return all_links
ListingNetworkError ==
    /\ pc = "links_fetch"
    /\ log' = Append(log, Get(page, "error"))
    /\ pc' = "links_ret"
    /\ UNCHANGED <<mode, exc, site, page, all_links, cards, ci>>
    /\ UNCHANGED scrapeVars
    /\ UNCHANGED mainVars

\* the page has no card: break, return all_links
ListingFetchEmpty ==
    /\ pc = "links_fetch"
    /\ PageAt(page) = <<>>
    /\ log' = Append(log, Get(page, "ok"))
    /\ cards' = <<>>
    /\ pc' = "links_ret"
    /\ UNCHANGED <<mode, exc, site, page, all_links, ci>>
    /\ UNCHANGED scrapeVars
    /\ UNCHANGED mainVars

\* the page has cards: enter the for loop
ListingFetchCards ==
    /\ pc = "links_fetch"
    /\ PageAt(page) # <<>>
    /\ log' = Append(log, Get(page, "ok"))
    /\ cards' = PageAt(page)
    /\ ci' = 1
    /\ pc' = "links_cards"
    /\ UNCHANGED <<mode, exc, site, page, all_links>>
    /\ UNCHANGED scrapeVars
    /\ UNCHANGED mainVars

\* one iteration of the for loop
LinksCard ==
    /\ pc = "links_cards"
    /\ ci <= Len(cards)
    /\ LET r == CardStep(cards[ci])
       IN  /\ pc' = IF r.raised THEN "raised" ELSE "links_cards"
           /\ exc' = IF r.raised THEN "KeyError" ELSE exc
           /\ all_links' = all_links \o r.out
           /\ ci' = IF r.raised THEN ci ELSE ci + 1
    /\ UNCHANGED <<mode, site, page, cards, log>>
    /\ UNCHANGED scrapeVars
    /\ UNCHANGED mainVars

\* a variant of LinksSleep that takes no delay
LinksSleepNoDelay ==
    /\ pc = "links_cards"
    /\ ci > Len(cards)
    /\ page' = page + 1
    /\ pc' = "links_fetch"
    /\ UNCHANGED <<mode, exc, site, all_links, cards, ci, log>>
    /\ UNCHANGED scrapeVars
    /\ UNCHANGED mainVars

\* page += 1; time.sleep(1)
LinksSleep ==
    /\ pc = "links_cards"
    /\ ci > Len(cards)
    /\ page' = page + 1
    /\ log' = Append(log, Sleep)
    /\ pc' = "links_fetch"
    /\ UNCHANGED <<mode, exc, site, all_links, cards, ci>>
    /\ UNCHANGED scrapeVars
    /\ UNCHANGED mainVars

NextLinks ==
    \/ ListingNetworkError
    \/ ListingFetchEmpty
    \/ ListingFetchCards
    \/ LinksCard
    \/ LinksSleep

(***************************************************************************)
(* The article pages.                                                      *)
(***************************************************************************)
\* the parsed page: each expected element is optional; an element that
\* holds text is modelled by its text, an img tag by its optional src
Section(r, v, i) == [rating |-> r, readcount |-> v, img |-> i]
Details(t, is) == [text |-> t, imgs |-> is]
Body(h, a, d, s, c) ==
    [h1 |-> h, author |-> a, date |-> d, section |-> s, details |-> c]

Opt(x) == { None, Some(x) }

ImgTags == { None, Some(SrcRel), Some(SrcCdn) }

ScrapeBodies ==
    { Body(h, a, d, s, c) :
        h \in Opt(" Ten lessons "), a \in Opt("Jane Doe"),
        d \in Opt(" 1 May 2024"),
        s \in { None } \cup
              { Some(Section(None, v, i)) :
                  v \in Opt(" 120 "),
                  i \in { None, Some(None), Some(Some(SrcRel)) } },
        c \in { None } \cup
              { Some(Details("One.\nTwo.\n", is)) :
                  is \in SeqsOf(ImgTags, 0, MaxImgs) } }

BodyPlain ==
    Body(Some(" Ten lessons "), Some("Jane Doe"), Some(" 1 May 2024"),
         Some(Section(Some("4.5 "), Some(" 120 "), None)),
         Some(Details("One.\nTwo.\n", <<>>)))
BodyError == Body(Some("Not Found"), None, None, None, None)

Response(st, b) == [status |-> st, body |-> b]

\* what the server may answer to an article request
Responses ==
    IF mode = "main"
    THEN { Response(200, BodyPlain), Response(404, BodyError) }
    ELSE { Response(st, b) : st \in { 200, 404 }, b \in ScrapeBodies }

\* the ways a request for an image may end: a 2xx response, a response with
\* an error status, an exception of requests.get
Nets == { "ok", "status", "error" }

(***************************************************************************)
(* download_image                                                          *)
(***************************************************************************)
filepath(u, ext) == [folder |-> IMAGE_FOLDER, name |-> <<md5(u), ext>>]

\* a variant of download_image without raise_for_status
download_image_any_status(img_url, net) ==
    IF Falsy(img_url)
    THEN [path |-> None, req |-> None]
    ELSE LET u == IF ~StartsWithHttp(img_url[1])
                  THEN urljoin(BASE_URL, img_url[1])
                  ELSE img_url[1]
             ext == IF splitext(u.path) # "" THEN splitext(u.path) ELSE ".jpg"
         IN  IF net # "error"
             THEN [path |-> Some(filepath(u, ext)), req |-> Some(u)]
             ELSE [path |-> None, req |-> Some(u)]

\* a variant of download_image that names the file after the URL and the
\* number of requests made so far
download_image_numbered(img_url, net) ==
    IF Falsy(img_url)
    THEN [path |-> None, req |-> None]
    ELSE LET u == IF ~StartsWithHttp(img_url[1])
                  THEN urljoin(BASE_URL, img_url[1])
                  ELSE img_url[1]
             ext == IF splitext(u.path) # "" THEN splitext(u.path) ELSE ".jpg"
         IN  IF net = "ok"
             THEN [path |-> Some([folder |-> IMAGE_FOLDER,
                                  name |-> <<md5(u), Len(requests), ext>>]),
                   req |-> Some(u)]
             ELSE [path |-> None, req |-> Some(u)]

\* download_image(img_url) when the request ends as net: the returned path,
\* and the URL requested (None when no request is made)
download_image(img_url, net) ==
    IF Falsy(img_url)
    THEN [path |-> None, req |-> None]
    ELSE LET u == IF ~StartsWithHttp(img_url[1])
                  THEN urljoin(BASE_URL, img_url[1])
                  ELSE img_url[1]
             ext == IF splitext(u.path) # "" THEN splitext(u.path) ELSE ".jpg"
         IN  IF net = "ok"
             THEN [path |-> Some(filepath(u, ext)), req |-> Some(u)]
             ELSE [path |-> None, req |-> Some(u)]

(***************************************************************************)
(* scrape_blog                                                             *)
(***************************************************************************)
\* str.strip() on the texts of the model
strip(s) ==
    CASE s = " Ten lessons " -> "Ten lessons"
      [] s = " 1 May 2024" -> "1 May 2024"
      [] s = " 120 " -> "120"
      [] s = "4.5 " -> "4.5"
      [] s = "One.\nTwo.\n" -> "One.\nTwo."
      [] OTHER -> s

\* tag.text.strip() if tag else sentinel
TextOr(tag, sentinel) == IF tag # None THEN strip(tag[1]) ELSE sentinel

\* a variant of FeaturedImageUrl that takes the first img of the content
\* container
FeaturedImageUrlFromContent(body, burl) ==
    LET tags == IF body.details # None THEN body.details[1].imgs ELSE <<>>
    IN  IF tags # <<>> /\ tags[1] # None
        THEN Some(urljoin(burl, tags[1][1]))
        ELSE None

\* lines 109-113: the first img of div.article_image.left_image
FeaturedImageUrl(body, burl) ==
    LET image_section == body.section
        featured_image_tag ==
            IF image_section # None THEN image_section[1].img ELSE None
    IN  IF featured_image_tag # None /\ featured_image_tag[1] # None
        THEN Some(urljoin(burl, featured_image_tag[1][1]))
        ELSE None

\* lines 117-120
Score(body) ==
    IF body.section # None
    THEN Some(TextOr(body.section[1].rating, "No score"))
    ELSE None

\* lines 123-126
Views(body) ==
    IF body.section # None
    THEN Some(TextOr(body.section[1].readcount, "No view count"))
    ELSE None

\* lines 129-130
Content(body) ==
    IF body.details # None THEN strip(body.details[1].text) ELSE "No content"

\* lines 133-134: the src of every img of the container that has one
AllImageUrls(body, burl) ==
    LET all_image_tags ==
            IF body.details # None THEN body.details[1].imgs ELSE <<>>
        withSrc == SelectSeq(all_image_tags, LAMBDA img : img # None)
    IN  [j \in 1..Len(withSrc) |-> urljoin(burl, withSrc[j][1])]

Call(role, url) == [role |-> role, url |-> url]

\* a request of the history: who asked, the argument given, the URL
\* requested, how it ended, the path returned
Request(role, arg, url, res, path) ==
    [role |-> role, arg |-> arg, url |-> url, res |-> res, path |-> path]

\* lines 88-92: requests.get raises, scrape_blog returns None
ScrapeNetworkError ==
    /\ pc = "scrape_fetch"
    /\ requests' = Append(requests,
                     Request("article", Some(blog_url), blog_url, "error", None))
    /\ ret' = None
    /\ pc' = "scrape_ret"
    /\ UNCHANGED <<mode, exc, site, blog_url, card_image_url, status, soup,
                   rec, todo, files>>
    /\ UNCHANGED linkVars
    /\ UNCHANGED mainVars

\* lines 94-134 but the downloads, for the response resp: the fields that
\* depend on the page alone, and the download_image calls to make
ParseResponse(resp) ==
    LET body == resp.body
        featured_image_url == FeaturedImageUrl(body, blog_url)
        all_image_urls == AllImageUrls(body, blog_url)
    IN  /\ status' = resp.status
        /\ soup' = Some(body)
        /\ requests' = Append(requests,
                Request("article", Some(blog_url), blog_url,
                        IF resp.status = 200 THEN "ok" ELSE "status", None))
        /\ rec' = Some([url |-> blog_url,
                        title |-> TextOr(body.h1, "No title"),
                        author |-> TextOr(body.author, "No author"),
                        date |-> TextOr(body.date, "No date"),
                        score |-> Score(body),
                        views |-> Views(body),
                        content |-> Content(body),
                        card_image |-> None,
                        featured_image |-> None,
                        all_images |-> <<>>])
        /\ todo' =
            (IF ~Falsy(featured_image_url)
             THEN << Call("featured", featured_image_url) >> ELSE <<>>)
            \o [j \in 1..Len(all_image_urls) |->
                    Call("all", Some(all_image_urls[j]))]
            \o (IF ~Falsy(card_image_url)
                THEN << Call("card", card_image_url) >> ELSE <<>>)
        /\ pc' = "scrape_images"
        /\ UNCHANGED <<mode, exc, site, blog_url, card_image_url, ret, files>>
        /\ UNCHANGED linkVars
        /\ UNCHANGED mainVars

\* a variant of ScrapeParse that treats an error status as a failed fetch
ScrapeParseRaiseForStatus ==
    /\ pc = "scrape_fetch"
    /\ \E resp \in Responses :
        IF resp.status = 200
        THEN ParseResponse(resp)
        ELSE /\ requests' = Append(requests,
                    Request("article", Some(blog_url), blog_url, "status", None))
             /\ ret' = None
             /\ pc' = "scrape_ret"
             /\ UNCHANGED <<mode, exc, site, blog_url, card_image_url, status,
                            soup, rec, todo, files>>
             /\ UNCHANGED linkVars
             /\ UNCHANGED mainVars

\* lines 89, 94: requests.get returns a response, which is parsed whatever
\* its status
ScrapeParse ==
    /\ pc = "scrape_fetch"
    /\ \E resp \in Responses : ParseResponse(resp)

\* lines 114, 135, 138: the next call of download_image
ScrapeDownload ==
    /\ pc = "scrape_images"
    /\ todo # <<>>
    /\ \E net \in Nets :
        LET t == Head(todo)
            d == download_image(t.url, net)
        IN  /\ rec' = Some(
                    CASE t.role = "featured" ->
                           [rec[1] EXCEPT !.featured_image = d.path]
                      [] t.role = "all" ->
                           [rec[1] EXCEPT !.all_images = Append(@, d.path)]
                      [] OTHER ->
                           [rec[1] EXCEPT !.card_image = d.path])
            /\ requests' =
                IF d.req # None
                THEN Append(requests,
                            Request(t.role, t.url, d.req[1], net, d.path))
                ELSE requests
            /\ files' = IF d.path # None THEN files \cup { d.path[1] } ELSE files
    /\ todo' = Tail(todo)
    /\ UNCHANGED <<mode, pc, exc, site, blog_url, card_image_url, status, soup,
                   ret>>
    /\ UNCHANGED linkVars
    /\ UNCHANGED mainVars

\* lines 140-151
ScrapeReturn ==
    /\ pc = "scrape_images"
    /\ todo = <<>>
    /\ ret' = rec
    /\ pc' = "scrape_ret"
    /\ UNCHANGED <<mode, exc, site, blog_url, card_image_url, status, soup,
                   rec, todo, requests, files>>
    /\ UNCHANGED linkVars
    /\ UNCHANGED mainVars

NextScrape ==
    \/ ScrapeNetworkError
    \/ ScrapeParse
    \/ ScrapeDownload
    \/ ScrapeReturn

(***************************************************************************)
(* main                                                                    *)
(***************************************************************************)
\* lines 155-158
MainLinks ==
    /\ mode = "main"
    /\ pc = "links_ret"
    /\ blog_links' = all_links
    /\ all_blog_data' = <<>>
    /\ bi' = 1
    /\ pc' = "main_loop"
    /\ UNCHANGED <<mode, exc, site, output>>
    /\ UNCHANGED linkVars
    /\ UNCHANGED scrapeVars

\* lines 159-160: the call of scrape_blog for the next LinkEntry
MainCall ==
    /\ pc = "main_loop"
    /\ bi <= Len(blog_links)
    /\ blog_url' = blog_links[bi].url
    /\ card_image_url' = blog_links[bi].card_image_url
    /\ status' = 0
    /\ soup' = None
    /\ rec' = None
    /\ todo' = <<>>
    /\ ret' = None
    /\ pc' = "scrape_fetch"
    /\ UNCHANGED <<mode, exc, site, requests, files>>
    /\ UNCHANGED linkVars
    /\ UNCHANGED mainVars

\* a variant of MainCollect that leaves the loop at the first failed article
MainCollectStopsOnFailure ==
    /\ mode = "main"
    /\ pc = "scrape_ret"
    /\ all_blog_data' =
        IF ret # None THEN Append(all_blog_data, ret[1]) ELSE all_blog_data
    /\ bi' = IF ret # None THEN bi + 1 ELSE Len(blog_links) + 1
    /\ pc' = "main_loop"
    /\ UNCHANGED <<mode, exc, site, blog_links, output>>
    /\ UNCHANGED linkVars
    /\ UNCHANGED scrapeVars

\* lines 161-162: if data: all_blog_data.append(data)
MainCollect ==
    /\ mode = "main"
    /\ pc = "scrape_ret"
    /\ all_blog_data' =
        IF ret # None THEN Append(all_blog_data, ret[1]) ELSE all_blog_data
    /\ bi' = bi + 1
    /\ pc' = "main_loop"
    /\ UNCHANGED <<mode, exc, site, blog_links, output>>
    /\ UNCHANGED linkVars
    /\ UNCHANGED scrapeVars

\* lines 164-168: the aggregate is written once, after the loop
MainWrite ==
    /\ pc = "main_loop"
    /\ bi > Len(blog_links)
    /\ output' = Some(all_blog_data)
    /\ pc' = "main_done"
    /\ UNCHANGED <<mode, exc, site, blog_links, bi, all_blog_data>>
    /\ UNCHANGED linkVars
    /\ UNCHANGED scrapeVars

Next ==
    \/ NextLinks
    \/ NextScrape
    \/ MainLinks
    \/ MainCall
    \/ MainCollect
    \/ MainWrite

InitCommon ==
    /\ exc = "none"
    /\ page = 1
    /\ all_links = <<>>
    /\ cards = <<>>
    /\ ci = 1
    /\ log = <<>>
    /\ status = 0
    /\ soup = None
    /\ rec = None
    /\ todo = <<>>
    /\ ret = None
    /\ requests = <<>>
    /\ files = {}
    /\ blog_links = <<>>
    /\ bi = 1
    /\ all_blog_data = <<>>
    /\ output = None

InitLinks ==
    /\ mode = "links"
    /\ pc = "links_fetch"
    /\ site \in Listings(LinkCards, MaxCards)
    /\ blog_url = BASE_URL
    /\ card_image_url = None
    /\ InitCommon

SpecLinks == InitLinks /\ [][NextLinks]_vars

\* one call of scrape_blog
InitScrape ==
    /\ mode = "scrape"
    /\ pc = "scrape_fetch"
    /\ site = <<>>
    /\ blog_url = urljoin(BASE_URL, HrefA)
    /\ card_image_url \in { None, Some(SrcRel), Some(SrcAbs) }
    /\ InitCommon

SpecScrape == InitScrape /\ [][NextScrape]_vars

\* one run of main
Init ==
    /\ mode = "main"
    /\ pc = "links_fetch"
    /\ site \in Listings(MainCards, MaxArticles)
    /\ blog_url = BASE_URL
    /\ card_image_url = None
    /\ InitCommon

Spec == Init /\ [][Next]_vars

(***************************************************************************)
(* Vocabulary of the properties.                                           *)
(***************************************************************************)
Last(q) == q[Len(q)]

RECURSIVE Flatten(_)
Flatten(ss) == IF ss = <<>> THEN <<>> ELSE Head(ss) \o Flatten(Tail(ss))

\* the LinkEntry of a card that holds an anchor: the absolute article URL and
\* the src of the thumbnail, absent when there is none
EntryOf(card) ==
    [url |-> urljoin(BASE_URL, card.anchor[1]),
     card_image_url |->
        IF card.img # None THEN card.img[1] ELSE None]

\* one LinkEntry per card holding an anchor, in order
RECURSIVE EntriesOf(_)
EntriesOf(cs) ==
    IF cs = <<>> THEN <<>>
    ELSE (IF Head(cs).anchor # None THEN << EntryOf(Head(cs)) >> ELSE <<>>)
         \o EntriesOf(Tail(cs))

\* the listing requests made so far, and their page indices
Gets == SelectSeq(log, LAMBDA e : e.op = "get")
GetPages == [i \in 1..Len(Gets) |-> Gets[i].page]
UpTo(n) == [i \in 1..n |-> i]
NoListingError == \A i \in 1..Len(log) : log[i].res # "error"

\* the requests of one role made so far
ReqsOf(role) == SelectSeq(requests, LAMBDA q : q.role = role)
ImageReqs == SelectSeq(requests, LAMBDA q : q.role # "article")
UrlsOf(q) == [i \in 1..Len(q) |-> q[i].url]

\* the local path the image cache derives from an absolute image URL
CachedPath(u) ==
    [folder |-> "images",
     name |-> <<md5(u), IF splitext(u.path) = "" THEN ".jpg" ELSE splitext(u.path)>>]

\* scrape_blog has returned a record
Returned == pc = "scrape_ret" /\ ret # None

\* the URLs of the images of the content container that carry a src
ContentUrls == AllImageUrls(soup[1], blog_url)

\* the image section of the page holds a first image that carries a src
HasSectionImage ==
    /\ soup[1].section # None
    /\ soup[1].section[1].img # None
    /\ soup[1].section[1].img[1] # None

(***************************************************************************)
(* C1: when no listing request fails, get_all_blog_links does not raise,   *)
(* and it returns after requesting pages 1, 2, ..., N+1 once each, in      *)
(* order, with exactly one LinkEntry per card of pages 1..N, in page and   *)
(* card order.  The code violates it: a card whose thumbnail has no src    *)
(* raises KeyError, and a card without an anchor yields no LinkEntry.      *)
(***************************************************************************)
C1_OneEntryPerCard ==
    NoListingError =>
        /\ pc # "raised"
        /\ pc = "links_ret" =>
            /\ GetPages = UpTo(Len(site) + 1)
            /\ Len(all_links) = Len(Flatten(site))
            /\ \A j \in 1..Len(all_links) :
                  Flatten(site)[j].anchor # None =>
                      all_links[j] = EntryOf(Flatten(site)[j])

(***************************************************************************)
(* C4: after a listing request for page k has raised, get_all_blog_links   *)
(* has returned without an exception, the pages requested are 1..k once    *)
(* each, in order, and the result is the LinkEntries of pages 1..k-1 in    *)
(* their order.                                                            *)
(***************************************************************************)
C4_NetworkErrorReturnsCollected ==
    (log # <<>> /\ Last(log).res = "error") =>
        LET k == Last(log).page
        IN  /\ pc = "links_ret"
            /\ exc = "none"
            /\ GetPages = UpTo(k)
            /\ \A i \in 1..(Len(log) - 1) : log[i].res # "error"
            /\ all_links = EntriesOf(Flatten(SubSeq(site, 1, k - 1)))

C4_Witness ==
    /\ pc = "links_ret"
    /\ log # <<>>
    /\ Last(log).res = "error"
    /\ Last(log).page = 3
    /\ Len(all_links) >= 2

(***************************************************************************)
(* C5: get_all_blog_links never raises, whatever the cards hold, and a     *)
(* card with an anchor but no thumbnail src appends a LinkEntry with an    *)
(* absent card_image_url.  The code violates it: img_tag["src"] raises     *)
(* KeyError when the img has no src.                                       *)
(***************************************************************************)
C5_MalformedCardNeverRaises ==
    /\ exc = "none"
    /\ pc # "raised"
    /\ (pc = "links_cards" /\ ci > 1 /\ cards[ci - 1].anchor # None
        /\ (cards[ci - 1].img = None \/ cards[ci - 1].img[1] = None)) =>
            /\ all_links # <<>>
            /\ Last(all_links) = EntryOf(cards[ci - 1])
            /\ Last(all_links).card_image_url = None

(***************************************************************************)
(* C9: listing requests and pacing delays alternate, starting with the     *)
(* request of page 1: exactly one delay lies between two successive        *)
(* requests, and the request that ends pagination is followed by none.     *)
(***************************************************************************)
C9_OneDelayBetweenFetches ==
    /\ \A i \in 1..Len(log) :
          IF i % 2 = 1
          THEN log[i].op = "get" /\ log[i].page = (i + 1) \div 2
          ELSE log[i] = Sleep
    /\ pc = "links_ret" => (log # <<>> /\ Last(log).op = "get")
    /\ pc = "links_fetch" => (log = <<>> \/ Last(log) = Sleep)

C9_Witness ==
    /\ pc = "links_ret"
    /\ Len(log) = 5
    /\ Last(log).res = "ok"

(***************************************************************************)
(* C3: in every record scrape_blog returns, title, author, date, views and *)
(* content are each the text extracted or the sentinel of the field, never *)
(* null.  The code violates it: views is None when the page has no image   *)
(* section.                                                                *)
(***************************************************************************)
C3_EveryFieldTextOrSentinel ==
    Returned =>
        LET r == ret[1]
            b == soup[1]
        IN  /\ r.title = (IF b.h1 # None THEN strip(b.h1[1]) ELSE "No title")
            /\ r.author = (IF b.author # None THEN strip(b.author[1])
                           ELSE "No author")
            /\ r.date = (IF b.date # None THEN strip(b.date[1]) ELSE "No date")
            /\ r.content = (IF b.details # None THEN strip(b.details[1].text)
                            ELSE "No content")
            /\ r.views # None
            /\ r.views[1] =
                  (IF b.section # None /\ b.section[1].readcount # None
                   THEN strip(b.section[1].readcount[1])
                   ELSE "No view count")

(***************************************************************************)
(* C6, as stated: two calls of download_image with the same URL return the *)
(* same path.  It fails when one of the two downloads fails.               *)
(***************************************************************************)
C6_SameUrlSamePath ==
    \A i, j \in 1..Len(ImageReqs) :
        ImageReqs[i].arg = ImageReqs[j].arg =>
            ImageReqs[i].path = ImageReqs[j].path

(***************************************************************************)
(* C6, amended: two calls of download_image with the same URL whose        *)
(* downloads both succeed return the same path, and a call whose download  *)
(* fails returns None.                                                     *)
(***************************************************************************)
C6_SameUrlSamePathOnSuccess ==
    \A i, j \in 1..Len(ImageReqs) :
        /\ (ImageReqs[i].arg = ImageReqs[j].arg
            /\ ImageReqs[i].res = "ok" /\ ImageReqs[j].res = "ok") =>
                (ImageReqs[i].path # None
                 /\ ImageReqs[i].path = ImageReqs[j].path)
        /\ ImageReqs[i].res # "ok" => ImageReqs[i].path = None

C6_Witness ==
    \E i, j \in 1..Len(ImageReqs) :
        /\ i < j
        /\ ImageReqs[i].role = "all"
        /\ ImageReqs[j].role = "card"
        /\ ImageReqs[i].arg = ImageReqs[j].arg
        /\ ImageReqs[i].res = "ok"
        /\ ImageReqs[j].res = "ok"

(***************************************************************************)
(* C7, as stated: when the content container holds an image with a src,    *)
(* the featured image is that first content image: it is requested once    *)
(* more for the featured role, and featured_image is the path of the first *)
(* entry of all_images when both downloads succeed.  It fails: the         *)
(* featured image is looked up in the image section.                       *)
(***************************************************************************)
C7_FeaturedIsFirstContentImage ==
    (Returned /\ ContentUrls # <<>>) =>
        LET F == ReqsOf("featured")
            A == ReqsOf("all")
        IN  /\ Len(F) = 1
            /\ F[1].url = ContentUrls[1]
            /\ ret[1].featured_image = F[1].path
            /\ (F[1].res = "ok" /\ A[1].res = "ok") =>
                  ret[1].featured_image = ret[1].all_images[1]

(***************************************************************************)
(* C7, amended: the featured image is the first image of the image section *)
(* (div.article_image.left_image).  When the section exists and its first  *)
(* image has a src, that URL is requested once for the featured role,      *)
(* whatever the all-images pass requests, and featured_image is its cached *)
(* path, or None when the download fails; otherwise no featured request is *)
(* made and featured_image is None.                                        *)
(***************************************************************************)
C7_FeaturedIsFirstSectionImage ==
    Returned =>
        LET F == ReqsOf("featured")
        IN  /\ UrlsOf(ReqsOf("all")) = ContentUrls
            /\ IF HasSectionImage
               THEN /\ Len(F) = 1
                    /\ F[1].url = urljoin(blog_url, soup[1].section[1].img[1][1])
                    /\ ret[1].featured_image =
                          (IF F[1].res = "ok" THEN Some(CachedPath(F[1].url))
                           ELSE None)
               ELSE /\ F = <<>>
                    /\ ret[1].featured_image = None

C7_Witness ==
    /\ Returned
    /\ HasSectionImage
    /\ ContentUrls # <<>>
    /\ ContentUrls[1] # ReqsOf("featured")[1].url
    /\ ReqsOf("featured")[1].res = "ok"
    /\ ret[1].all_images[1] # None

(***************************************************************************)
(* C8: in a returned record all_images has one entry per content image     *)
(* that carries a src, in document order; entry j is the cached path of    *)
(* image j when its download succeeded and None otherwise; the other       *)
(* fields are those the page and their own downloads give, whatever the    *)
(* outcome of the content downloads.                                       *)
(***************************************************************************)
C8_ImageFailureIsolated ==
    Returned =>
        LET r == ret[1]
            b == soup[1]
            A == ReqsOf("all")
            F == ReqsOf("featured")
            K == ReqsOf("card")
        IN  /\ Len(r.all_images) = Len(ContentUrls)
            /\ UrlsOf(A) = ContentUrls
            /\ \A j \in 1..Len(ContentUrls) :
                  r.all_images[j] =
                      (IF A[j].res = "ok" THEN Some(CachedPath(ContentUrls[j]))
                       ELSE None)
            /\ r.url = blog_url
            /\ r.title = TextOr(b.h1, "No title")
            /\ r.author = TextOr(b.author, "No author")
            /\ r.date = TextOr(b.date, "No date")
            /\ r.score = Score(b)
            /\ r.views = Views(b)
            /\ r.content = Content(b)
            /\ r.featured_image = (IF F # <<>> THEN F[1].path ELSE None)
            /\ r.card_image = (IF K # <<>> THEN K[1].path ELSE None)
            /\ Len(F) = (IF HasSectionImage THEN 1 ELSE 0)
            /\ Len(K) = (IF card_image_url # None THEN 1 ELSE 0)

C8_Witness ==
    /\ Returned
    /\ Len(ContentUrls) = 2
    /\ ReqsOf("all")[1].res = "error"
    /\ ReqsOf("all")[2].res = "ok"
    /\ ret[1].all_images[1] = None
    /\ ret[1].all_images[2] # None
    /\ ret[1].featured_image # None
    /\ ret[1].card_image # None

(***************************************************************************)
(* C2: when main has written the aggregate, every LinkEntry has been       *)
(* requested exactly once, in discovery order, failed or not, and the      *)
(* aggregate holds one record for each article whose request did not       *)
(* raise and none for the others, in the same order.                       *)
(***************************************************************************)
C2_AggregateIsSucceededArticles ==
    pc = "main_done" =>
        LET A == ReqsOf("article")
            S == SelectSeq(A, LAMBDA q : q.res # "error")
        IN  /\ UrlsOf(A) = [i \in 1..Len(blog_links) |-> blog_links[i].url]
            /\ [i \in 1..Len(all_blog_data) |-> all_blog_data[i].url] = UrlsOf(S)
            /\ output = Some(all_blog_data)

C2_Witness ==
    /\ pc = "main_done"
    /\ Len(blog_links) = 3
    /\ ReqsOf("article")[1].res = "ok"
    /\ ReqsOf("article")[2].res = "error"
    /\ ReqsOf("article")[3].res = "ok"
    /\ Len(output[1]) = 2

(***************************************************************************)
(* C10: an article response with an error status is parsed like any other: *)
(* scrape_blog returns a record, holding the sentinels of the elements the *)
(* error page lacks, and main appends it to the aggregate; an image        *)
(* response with an error status makes download_image return None.         *)
(***************************************************************************)
C10_ErrorStatusArticleIsScraped ==
    /\ (pc = "scrape_ret" /\ Last(ReqsOf("article")).res = "status") =>
          (ret # None /\ ret[1].url = blog_url /\ ret[1].author = "No author")
    /\ \A i \in 1..Len(ImageReqs) :
          ImageReqs[i].res = "status" => ImageReqs[i].path = None
    /\ (pc = "main_loop" /\ bi > 1
        /\ Last(ReqsOf("article")).res = "status") =>
          (all_blog_data # <<>>
           /\ Last(all_blog_data).url = blog_links[bi - 1].url
           /\ Last(all_blog_data).title = "Not Found")

C10_Witness ==
    /\ pc = "main_done"
    /\ \E i \in 1..Len(requests) :
          requests[i].role = "article" /\ requests[i].res = "status"
    /\ \E i \in 1..Len(requests) :
          requests[i].role = "card" /\ requests[i].res = "status"
    /\ \E i \in 1..Len(all_blog_data) : all_blog_data[i].title = "Not Found"

====
